---- MODULE Spec2Model ----
(***************************************************************************)
(* Model of src/utils/tuner.py: the hyperparameter tuners of the ARIMA     *)
(* pairs-trading repository.  A single client makes a bounded number of    *)
(* calls, one after the other (the code is single-threaded):               *)
(*   - ARIMATuner.grid_search, modelled statement group by statement group *)
(*     (scorer call, progress print, comparison, estimator construction);  *)
(*   - ARIMATuner._find_d_values, one stationarity test per step;          *)
(*   - GARCHTuner(...) and GARCHTuner.grid_search.                         *)
(* The statsmodels fit, the stationarity test and the scores they yield    *)
(* are external: they are nondeterministic choices.                        *)
(***************************************************************************)
EXTENDS Integers, Sequences, FiniteSets, TLC

\* ---------------------------------------------------------------- bounds
MaxLen == 2
MaxCombos == 4
MaxScore == 1
MaxTrain == 2
MaxCalls == 2
MaxShift == 3
MaxArgs == 2

\* ---------------------------------------------------------------- values
\* Python floats as the comparison at line 186 sees them, and None.
Num(n) == <<"num", n>>
Inf == <<"inf", 0>>
NaN == <<"nan", 0>>
None == <<"None", 0>>
\* best_cfg = None (line 167)
NoneCfg == <<>>

FloatVals == {Num(n) : n \in 0..MaxScore} \cup {Inf, NaN}
\* grid_search never inspects an element of p, q or d, it only copies it into
\* cfg (line 178): two values tell the positions of a list apart
Vals == {0, 1}
Trains == 1..MaxTrain
Methods == {"aic", "bic", "bse", "unsupported"}
Supported == {"aic", "bic", "bse"}

Lists == UNION {[1..n -> Vals] : n \in 0..MaxLen}
ParamSpaces ==
    {ps \in [p : Lists, q : Lists, d : Lists] :
        Len(ps.p) * Len(ps.q) * Len(ps.d) <= MaxCombos}

\* Python's  a < b  on two floats (line 186): every comparison with nan is
\* False, inf is below nothing, every finite number is below inf.
Lt(a, b) ==
    IF a[1] = "nan" \/ b[1] = "nan" THEN FALSE
    ELSE IF a[1] = "inf" THEN FALSE
    ELSE IF b[1] = "inf" THEN TRUE
    ELSE a[2] < b[2]

\* ---------------------------------------------------------------- state
VARIABLES
    calls,        \* number of calls the client has started
    op,           \* the function the client called last
    pc,           \* position inside that function
    error,        \* the exception that left it, "none" otherwise
    param_space, method, train,      \* arguments of grid_search / _find_d_values
    best_score, score, best_cfg,     \* locals of grid_search (lines 165-167)
    it,           \* positions of the three nested for loops (lines 175-177)
    trace,        \* external calls made by the current call, in order
    result,       \* value returned by the current call
    selfHas,      \* attributes that resolve on self in _find_d_values
    d_values, i,  \* locals of _find_d_values
    stat,         \* answers of the stationarity test, in order
    how, nargs    \* how the GARCHTuner was obtained, constructor arguments

gridVars == <<param_space, method, best_score, score, best_cfg, it>>
fdVars == <<selfHas, d_values, i, stat>>
garchVars == <<how, nargs>>
vars == <<calls, op, pc, error, train, trace, result, gridVars, fdVars, garchVars>>

NoResult == [kind |-> "none", cfg |-> NoneCfg, model |-> <<>>, val |-> <<>>]
Finished == {"idle", "returned", "raised"}

Event(ev, name, cfg, sc, t) ==
    [ev |-> ev, name |-> name, cfg |-> cfg, score |-> sc, train |-> t]

Init ==
    /\ calls = 0
    /\ op = "none"
    /\ pc = "idle"
    /\ error = "none"
    /\ param_space = [p |-> <<>>, q |-> <<>>, d |-> <<>>]
    /\ method = "aic"
    /\ train = 1
    /\ best_score = Inf
    /\ score = None
    /\ best_cfg = NoneCfg
    /\ it = <<1, 1, 1>>
    /\ trace = <<>>
    /\ result = NoResult
    /\ selfHas = {}
    /\ d_values = <<>>
    /\ i = 0
    /\ stat = <<>>
    /\ how = "none"
    /\ nargs = 0

\* ------------------------------------------------- ARIMATuner.grid_search
\* variant: the locals live on from the call before
GridLocalsKept(old) == old

\* lines 165-167: the three locals, whatever an earlier call left behind
GridLocals(old) == [best_score |-> Inf, score |-> None, best_cfg |-> NoneCfg]

\* the cfg the loops stand at (line 178)
CfgAt(ps, pos) == <<ps.p[pos[1]], ps.q[pos[2]], ps.d[pos[3]]>>

Done == <<0, 0, 0>>

\* variant: q outermost, p in the middle
NextItQOuter(ps, pos) ==
    IF pos[3] < Len(ps.d) THEN <<pos[1], pos[2], pos[3] + 1>>
    ELSE IF pos[1] < Len(ps.p) THEN <<pos[1] + 1, pos[2], 1>>
    ELSE IF pos[2] < Len(ps.q) THEN <<1, pos[2] + 1, 1>>
    ELSE Done

\* the three nested for loops (lines 175-177): d innermost, p outermost
NextIt(ps, pos) ==
    IF pos[3] < Len(ps.d) THEN <<pos[1], pos[2], pos[3] + 1>>
    ELSE IF pos[2] < Len(ps.q) THEN <<pos[1], pos[2] + 1, 1>>
    ELSE IF pos[1] < Len(ps.p) THEN <<pos[1] + 1, 1, 1>>
    ELSE Done
FirstIt(ps) ==
    IF Len(ps.p) = 0 \/ Len(ps.q) = 0 \/ Len(ps.d) = 0 THEN Done ELSE <<1, 1, 1>>

\* utils.estimator.ARIMAEstimator(train, order=...): an opaque constructor
ARIMAEstimator(t, order) == [series |-> t, order |-> order]

\* the scorer the if/elif chain of lines 179-184 selects
SelectScorer(m) ==
    IF m = "aic" THEN "_aic_arima_model"
    ELSE IF m = "bic" THEN "_bic_arima_model"
    ELSE IF m = "bse" THEN "_bse_arima_model"
    ELSE "none"

\* entry and lines 165-173
GridSearchCall ==
    /\ pc = "idle"
    /\ calls < MaxCalls
    /\ \E ps \in ParamSpaces, m \in Methods, t \in Trains :
        LET loc == GridLocals([best_score |-> best_score, score |-> score,
                               best_cfg |-> best_cfg])
        IN  /\ param_space' = ps
            /\ method' = m
            /\ train' = t
            /\ best_score' = loc.best_score
            /\ score' = loc.score
            /\ best_cfg' = loc.best_cfg
            /\ it' = FirstIt(ps)
            /\ pc' = IF FirstIt(ps) = Done THEN "construct" ELSE "score"
    /\ calls' = calls + 1
    /\ op' = "grid_search"
    /\ UNCHANGED <<error, trace, result, fdVars, garchVars>>


\* lines 178-184 for the combination the loops stand at: the scorer selected by
\* method builds ARIMA(train, order=cfg), fits it and hands back one diagnostic
\* (lines 106-110, 119-123, 126-130).  A fit that raises leaves grid_search at
\* once: there is no try statement.  With an unsupported method no branch of
\* the chain is taken and score keeps its value.
\* variant: the failing combination is skipped and the search goes on
FitRaisesSkipped(cfg, sc) == [pc |-> "print", error |-> "none", score |-> Inf]

FitRaises(cfg, sc) == [pc |-> "raised", error |-> "ModelFitError", score |-> sc]

GridScore ==
    /\ op = "grid_search"
    /\ pc = "score"
    /\ LET cfg == CfgAt(param_space, it)
           scorer == SelectScorer(method)
       IN  IF scorer = "none"
           THEN /\ pc' = "print"
                /\ UNCHANGED <<score, trace, error>>
           ELSE \/ \E v \in FloatVals :
                    /\ score' = v
                    /\ trace' = Append(trace, Event("fit", scorer, cfg, v, train))
                    /\ pc' = "print"
                    /\ error' = error
                \/ LET out == FitRaises(cfg, score)
                   IN  /\ trace' = Append(trace, Event("fit", scorer, cfg, None, train))
                       /\ pc' = out.pc
                       /\ error' = out.error
                       /\ score' = out.score
    /\ UNCHANGED <<calls, op, train, result, param_space, method, best_score,
                   best_cfg, it, fdVars, garchVars>>

\* line 185: the progress line
GridPrint ==
    /\ op = "grid_search"
    /\ pc = "print"
    /\ trace' = Append(trace, Event("print", method, CfgAt(param_space, it), score, train))
    /\ pc' = "compare"
    /\ UNCHANGED <<calls, op, error, train, result, gridVars, fdVars, garchVars>>

\* line 186: must best_score and best_cfg be replaced?
Improves(sc, best) == Lt(sc, best)

\* lines 186-188 and the step of the for loops.  None < float raises TypeError.
GridCompare ==
    /\ op = "grid_search"
    /\ pc = "compare"
    /\ IF score = None
       THEN /\ pc' = "raised"
            /\ error' = "TypeError"
            /\ UNCHANGED <<best_score, best_cfg, it>>
       ELSE /\ IF Improves(score, best_score)
               THEN /\ best_score' = score
                    /\ best_cfg' = CfgAt(param_space, it)
               ELSE UNCHANGED <<best_score, best_cfg>>
            /\ it' = NextIt(param_space, it)
            /\ pc' = IF NextIt(param_space, it) = Done THEN "construct" ELSE "score"
            /\ error' = error
    /\ UNCHANGED <<calls, op, train, trace, result, param_space, method, score,
                   fdVars, garchVars>>

\* lines 189-190
GridReturn ==
    /\ op = "grid_search"
    /\ pc = "construct"
    /\ LET model == ARIMAEstimator(train, best_cfg)
       IN  /\ trace' = Append(trace, Event("construct", "ARIMAEstimator", best_cfg, None, train))
           /\ result' = [kind |-> "tuple", cfg |-> best_cfg, model |-> model, val |-> <<>>]
    /\ pc' = "returned"
    /\ UNCHANGED <<calls, op, error, train, gridVars, fdVars, garchVars>>

\* ------------------------------------------------ ARIMATuner._find_d_values
StatTest(series, shift, answer) == [series |-> series, shift |-> shift, answer |-> answer]
Attrs == {"is_stationary", "_y_train"}

\* entry and line 139.  ARIMATuner defines neither is_stationary nor _y_train
\* (lines 96-97 set nothing); selfHas is what a subclass or the caller added.
FindDCall ==
    /\ pc = "idle"
    /\ calls < MaxCalls
    /\ \E t \in Trains, has \in SUBSET Attrs :
        /\ train' = t
        /\ selfHas' = has
    /\ d_values' = <<>>
    /\ i' = 0
    /\ stat' = <<>>
    /\ calls' = calls + 1
    /\ op' = "_find_d_values"
    /\ pc' = "fd_if"
    /\ UNCHANGED <<error, trace, result, gridVars, garchVars>>

\* lines 140-144
FindDIf ==
    /\ op = "_find_d_values"
    /\ pc = "fd_if"
    /\ IF "is_stationary" \notin selfHas
       THEN /\ pc' = "raised"
            /\ error' = "AttributeError"
            /\ UNCHANGED <<result, i, stat>>
       ELSE \E b \in BOOLEAN :
            /\ stat' = Append(stat, StatTest("train", 0, b))
            /\ error' = error
            /\ IF b
               THEN /\ result' = [kind |-> "int", cfg |-> NoneCfg, model |-> <<>>, val |-> <<0>>]
                    /\ pc' = "returned"
                    /\ i' = i
               ELSE /\ i' = 1
                    /\ pc' = "fd_while"
                    /\ result' = result
    /\ UNCHANGED <<calls, op, train, trace, gridVars, selfHas, d_values, garchVars>>

\* line 146: the loop goes on while the test of self._y_train.shift(i) "is False"
LoopGoesOn(answer) == answer = FALSE

\* lines 146-149: the code has no iteration limit; MaxShift caps i in the model
FindDWhile ==
    /\ op = "_find_d_values"
    /\ pc = "fd_while"
    /\ IF "_y_train" \notin selfHas
       THEN /\ pc' = "raised"
            /\ error' = "AttributeError"
            /\ UNCHANGED <<result, i, stat, d_values>>
       ELSE \E b \in BOOLEAN :
            /\ stat' = Append(stat, StatTest("_y_train", i, b))
            /\ error' = error
            /\ IF LoopGoesOn(b)
               THEN /\ i < MaxShift
                    /\ d_values' = Append(d_values, i)
                    /\ i' = i + 1
                    /\ UNCHANGED <<pc, result>>
               ELSE /\ result' = [kind |-> "list", cfg |-> NoneCfg, model |-> <<>>, val |-> d_values]
                    /\ pc' = "returned"
                    /\ UNCHANGED <<i, d_values>>
    /\ UNCHANGED <<calls, op, train, trace, gridVars, selfHas, garchVars>>

\* ------------------------------------------------------------- GARCHTuner
\* lines 28-29: HyperparameterTuner.__init__(self) takes no argument
HyperparameterTuner_init(n) == IF n = 0 THEN "ok" ELSE "TypeError"

\* lines 198-199: GARCHTuner.__init__(self, df, target) hands both to the base
GARCHTuner_init(n) == IF n # 2 THEN "TypeError" ELSE HyperparameterTuner_init(n)

\* the client obtains the object grid_search will run on: GARCHTuner(args), or
\* any object handed to the plain function GARCHTuner.grid_search
GarchObtain ==
    /\ pc = "idle"
    /\ calls < MaxCalls
    /\ \E h \in {"constructor", "unbound"}, n \in 0..MaxArgs :
        /\ h = "unbound" => n = 0
        /\ how' = h
        /\ nargs' = n
        /\ IF h = "constructor" /\ GARCHTuner_init(n) # "ok"
           THEN /\ pc' = "raised"
                /\ error' = GARCHTuner_init(n)
           ELSE /\ pc' = "garch_ready"
                /\ error' = error
    /\ calls' = calls + 1
    /\ op' = "GARCHTuner"
    /\ UNCHANGED <<train, trace, result, gridVars, fdVars>>

\* line 202; lines 203-205 are never reached
GarchGridSearch ==
    /\ op = "GARCHTuner"
    /\ pc = "garch_ready"
    /\ \E pv \in Lists, qv \in Lists :
        param_space' = [p |-> pv, q |-> qv, d |-> <<>>]
    /\ pc' = "raised"
    /\ error' = "NotImplementedError"
    /\ UNCHANGED <<calls, op, train, trace, result, method, best_score, score,
                   best_cfg, it, fdVars, garchVars>>

\* ------------------------------------------------------------- the client
\* The caller takes the result or the exception; the frame of the call is gone.
\* best_score, score and best_cfg keep the dead frame's values: nothing but
\* lines 165-167 of the next call may be relied on to replace them.
Resume ==
    /\ pc \in {"returned", "raised"}
    /\ calls < MaxCalls
    /\ pc' = "idle"
    /\ op' = "none"
    /\ error' = "none"
    /\ trace' = <<>>
    /\ result' = NoResult
    /\ param_space' = [p |-> <<>>, q |-> <<>>, d |-> <<>>]
    /\ method' = "aic"
    /\ train' = 1
    /\ it' = <<1, 1, 1>>
    /\ selfHas' = {}
    /\ d_values' = <<>>
    /\ i' = 0
    /\ stat' = <<>>
    /\ how' = "none"
    /\ nargs' = 0
    /\ UNCHANGED <<calls, best_score, score, best_cfg>>

\* ------------------------------------------------------------ properties
Spaces == Len(param_space.p) * Len(param_space.q) * Len(param_space.d)
NonEmptySpace == Spaces > 0

\* the k-th element of p x q x d with p outermost, q in the middle, d innermost
EnumCfg(k) ==
    LET Lq == Len(param_space.q)
        Ld == Len(param_space.d)
    IN  <<param_space.p[((k - 1) \div (Lq * Ld)) + 1],
          param_space.q[(((k - 1) \div Ld) % Lq) + 1],
          param_space.d[((k - 1) % Ld) + 1]>>

IsFit(e) == e.ev = "fit"
IsPrint(e) == e.ev = "print"
IsConstruct(e) == e.ev = "construct"
Fits == SelectSeq(trace, IsFit)
Constructs == SelectSeq(trace, IsConstruct)

\* Python's  a <= b  on two floats
Le(a, b) ==
    IF a[1] = "nan" \/ b[1] = "nan" THEN FALSE
    ELSE IF b[1] = "inf" THEN TRUE
    ELSE IF a[1] = "inf" THEN FALSE
    ELSE a[2] <= b[2]

GridReturned == op = "grid_search" /\ pc = "returned"
\* positions whose score is <= the score of every position
Minimal == {j \in 1..Len(Fits) : \A k \in 1..Len(Fits) : Le(Fits[j].score, Fits[k].score)}
First(S) == CHOOSE j \in S : \A k \in S : j <= k

\* C1: whenever grid_search returns for a supported method and non-empty p, q
\* and d, the returned configuration is an element of p x q x d and its score
\* is <= the score of every combination.
C1_ReturnsOptimalMember ==
    (GridReturned /\ method \in Supported /\ NonEmptySpace) =>
        \E j \in 1..Spaces :
            /\ result.cfg = EnumCfg(j)
            /\ \A k \in 1..Spaces : Le(Fits[j].score, Fits[k].score)

\* C2: whenever grid_search returns and two or more combinations tie for the
\* minimum score, the returned configuration is the one of them enumerated first.
C2_TieKeepsFirst ==
    (GridReturned /\ method \in Supported /\ Cardinality(Minimal) >= 2) =>
        result.cfg = EnumCfg(First(Minimal))

\* C3: with a method that is none of aic, bic, bse, grid_search never returns
\* a result and fits no model, whatever the hyperparameter space.
C3_UnsupportedMethodNeverReturns ==
    (op = "grid_search" /\ method \notin Supported) =>
        /\ pc # "returned"
        /\ result = NoResult
        /\ Len(Fits) = 0

\* C4: with an empty p, q or d list, grid_search never returns a null
\* configuration and never constructs an estimator with a null order.
C4_EmptySpaceFailsFast ==
    (op = "grid_search" /\ ~NonEmptySpace) =>
        /\ pc # "returned"
        /\ \A k \in 1..Len(trace) : ~(IsConstruct(trace[k]) /\ trace[k].cfg = NoneCfg)

\* C5: a client that obtains a GARCHTuner through its constructor, GARCHTuner(df,
\* target), and calls grid_search fails with NotImplementedError and nothing
\* else, and no estimator is constructed.
C5_GarchAlwaysUnimplemented ==
    (op = "GARCHTuner" /\ how = "constructor" /\ nargs = 2) =>
        /\ pc = "raised" => error = "NotImplementedError"
        /\ Len(trace) = 0
        /\ result = NoResult

\* C6: when grid_search returns, the estimator was constructed exactly once,
\* after every combination was scored, with the returned order and the training
\* series the scorers were given, and the returned order is a 3-tuple.
C6_ReturnsTupleAndEstimator ==
    GridReturned =>
        /\ Len(Constructs) = 1
        /\ IsConstruct(trace[Len(trace)])
        /\ trace[Len(trace)].cfg = result.cfg
        /\ result.model = [series |-> train, order |-> result.cfg]
        /\ \A k \in 1..Len(Fits) : Fits[k].train = result.model.series
        /\ Len(result.cfg) = 3

\* C7: a fit that fails ends the search with that failure: it is the last thing
\* the call did, no later combination is scored, no estimator is constructed
\* and nothing is returned.
C7_FitFailureIsFatal ==
    \A k \in 1..Len(trace) :
        (IsFit(trace[k]) /\ trace[k].score = None) =>
            /\ k = Len(trace)
            /\ op = "grid_search"
            /\ pc = "raised"
            /\ error = "ModelFitError"
            /\ result = NoResult
            /\ Len(Constructs) = 0
            /\ Len(Fits) <= Spaces
            /\ trace[k].cfg = EnumCfg(Len(Fits))

C7_Witness ==
    /\ op = "grid_search"
    /\ error = "ModelFitError"
    /\ Len(Fits) = 2
    /\ Spaces = 4

ScorerOf(m) ==
    CASE m = "aic" -> "_aic_arima_model"
      [] m = "bic" -> "_bic_arima_model"
      [] m = "bse" -> "_bse_arima_model"

\* C8: a completed search with a supported method consists of, for k = 1..N in
\* the order p outermost, q middle, d innermost: one fit by the scorer of the
\* method on the k-th combination, then one progress line for that combination
\* and score; N = |p| * |q| * |d| fits and N lines in all, then the estimator.
C8_VisitsProductInOrder ==
    (GridReturned /\ method \in Supported) =>
        /\ Len(trace) = 2 * Spaces + 1
        /\ \A k \in 1..Spaces :
            /\ trace[2 * k - 1].ev = "fit"
            /\ trace[2 * k - 1].name = ScorerOf(method)
            /\ trace[2 * k - 1].cfg = EnumCfg(k)
            /\ trace[2 * k].ev = "print"
            /\ trace[2 * k].name = method
            /\ trace[2 * k].cfg = EnumCfg(k)
            /\ trace[2 * k].score = trace[2 * k - 1].score

C8_Witness ==
    /\ GridReturned
    /\ method = "bic"
    /\ param_space.p = <<0, 1>>
    /\ param_space.q = <<1, 0>>
    /\ Len(param_space.d) = 1

FirstStationary == First({k \in 1..Len(stat) : stat[k].answer})

\* C9: when _find_d_values returns, it returns the minimal order of
\* differencing at which the stationarity test answered "stationary".
C9_ReturnsMinimalOrder ==
    (op = "_find_d_values" /\ pc = "returned") =>
        /\ result.kind = "int"
        /\ result.val = <<FirstStationary - 1>>

RECURSIVE BestOf(_)
BestOf(n) ==
    IF n = 0 THEN [s |-> Inf, c |-> NoneCfg]
    ELSE LET b == BestOf(n - 1)
         IN  IF Lt(Fits[n].score, b.s) THEN [s |-> Fits[n].score, c |-> Fits[n].cfg]
             ELSE b

C10_Fresh ==
    /\ (op = "grid_search" /\ pc \in {"score", "construct"} /\ trace = <<>>) =>
          (best_score = Inf /\ best_cfg = NoneCfg /\ score = None)
    /\ (GridReturned /\ method \in Supported) =>
          /\ result.cfg = BestOf(Len(Fits)).c
          /\ result.model.series = train
    /\ op = "grid_search" => selfHas = {}

C10_Frame ==
    (op = "grid_search" /\ pc \notin Finished) =>
        (param_space' = param_space /\ train' = train /\ method' = method /\ selfHas' = selfHas)

\* C10: grid_search keeps nothing from an earlier call: it starts from
\* best_score = +inf, best_cfg = None, score = None, what it returns is the
\* first strict minimum of this call's scores built for this call's train, and
\* while it runs param_space, train and the instance stay as they are.
C10_NoStateAcrossCalls == [](C10_Fresh) /\ [][C10_Frame]_vars

C10_Witness ==
    /\ calls = 2
    /\ GridReturned
    /\ Len(result.cfg) = 3
    /\ Spaces >= 2

Next ==
    \/ GridSearchCall
    \/ GridScore
    \/ GridPrint
    \/ GridCompare
    \/ GridReturn
    \/ FindDCall
    \/ FindDIf
    \/ FindDWhile
    \/ GarchObtain
    \/ GarchGridSearch
    \/ Resume

Spec == Init /\ [][Next]_vars
====
